---------------------------- MODULE Spec2Model ----------------------------
(***************************************************************************)
(* Riftlol Store API (src/main.py): the document serializer, the query     *)
(* filter construction of the two catalog routes, and the startup seed.    *)
(*                                                                         *)
(* Two specifications share the variables:                                 *)
(*   SpecSerialize  serialize_doc applied once and then again to its own   *)
(*                  output, on every document of a bounded family;         *)
(*   Spec           the service: startups (seed_if_empty) and the requests *)
(*                  GET /api/products and GET /api/featured on a store.    *)
(***************************************************************************)
EXTENDS Integers, Sequences, FiniteSets, TLC

VARIABLES
    heap,       \* SpecSerialize: the dict objects, by reference (1..Len(heap))
    input,      \* SpecSerialize: the value of the argument before the first call
    call,       \* SpecSerialize: "init" | "once" | "twice"
    first,      \* SpecSerialize: result of serialize_doc(doc)
    second,     \* SpecSerialize: result of serialize_doc(serialize_doc(doc))
    db,         \* Spec: the store handle, "None" when not configured
    product,    \* Spec: db["product"], the stored documents in insertion order
    boot,       \* Spec: the last startup, what it observed and did
    request,    \* Spec: the last catalog request
    storeCall,  \* Spec: the get_documents call the last request made
    response    \* Spec: the last catalog response

vars == <<heap, input, call, first, second, db, product, boot, request, storeCall, response>>

serVars == <<heap, input, call, first, second>>

apiVars == <<db, product, boot, request, storeCall, response>>

---------------------------------------------------------------------------
(* Python values.  Every value is a record of one shape, so that any two   *)
(* values compare: t is the type, s the text payload, n the integer        *)
(* payload, items the elements of a list.                                  *)

PyNone == [t |-> "NoneType", s |-> "", n |-> <<>>, items |-> <<>>]

PyBool(b) == [t |-> "bool", s |-> "", n |-> <<IF b THEN 1 ELSE 0>>, items |-> <<>>]

PyInt(i) == [t |-> "int", s |-> "", n |-> <<i>>, items |-> <<>>]

PyStr(x) == [t |-> "str", s |-> x, n |-> <<>>, items |-> <<>>]

PyList(xs) == [t |-> "list", s |-> "", n |-> <<>>, items |-> xs]

\* bson ObjectId: s is its 24-digit hexadecimal form
ObjectId(hex) == [t |-> "ObjectId", s |-> hex, n |-> <<>>, items |-> <<>>]

\* a naive datetime: year, month, day, hour, minute, second, microsecond
DateTime(y, mo, d, h, mi, sec, us) ==
    [t |-> "datetime", s |-> "", n |-> <<y, mo, d, h, mi, sec, us>>, items |-> <<>>]

\* an aware datetime: the same, and the UTC offset in minutes
DateTimeTz(y, mo, d, h, mi, sec, us, off) ==
    [t |-> "datetime", s |-> "", n |-> <<y, mo, d, h, mi, sec, us, off>>, items |-> <<>>]

\* bool(v): Python's truth value
Truthy(v) ==
    CASE v.t = "NoneType" -> FALSE
      [] v.t = "bool"     -> v.n[1] = 1
      [] v.t = "int"      -> v.n[1] # 0
      [] v.t = "str"      -> v.s # ""
      [] v.t = "list"     -> v.items # <<>>
      [] OTHER            -> TRUE

Pad2(i) == IF i < 10 THEN "0" \o ToString(i) ELSE ToString(i)

Pad4(i) ==
    IF i < 10 THEN "000" \o ToString(i)
    ELSE IF i < 100 THEN "00" \o ToString(i)
    ELSE IF i < 1000 THEN "0" \o ToString(i)
    ELSE ToString(i)

Pad6(i) ==
    IF i < 10 THEN "00000" \o ToString(i)
    ELSE IF i < 100 THEN "0000" \o ToString(i)
    ELSE IF i < 1000 THEN "000" \o ToString(i)
    ELSE IF i < 10000 THEN "00" \o ToString(i)
    ELSE IF i < 100000 THEN "0" \o ToString(i)
    ELSE ToString(i)

\* the "+HH:MM" suffix of an aware datetime, nothing for a naive one
UtcOffsetText(n) ==
    IF Len(n) < 8 THEN ""
    ELSE LET off == n[8]
             a   == IF off < 0 THEN -off ELSE off
         IN (IF off < 0 THEN "-" ELSE "+") \o Pad2(a \div 60) \o ":" \o Pad2(a % 60)

\* datetime.isoformat(sep): YYYY-MM-DD<sep>HH:MM:SS[.ffffff][+HH:MM]
IsoText(n, sep) ==
    Pad4(n[1]) \o "-" \o Pad2(n[2]) \o "-" \o Pad2(n[3]) \o sep
      \o Pad2(n[4]) \o ":" \o Pad2(n[5]) \o ":" \o Pad2(n[6])
      \o (IF n[7] # 0 THEN "." \o Pad6(n[7]) ELSE "")
      \o UtcOffsetText(n)

\* a faulty variant of isoformat: str(v), which separates date and time by a blank
isoformat_blank(v) == PyStr(IsoText(v.n, " "))

\* v.isoformat()
isoformat(v) == PyStr(IsoText(v.n, "T"))

\* str(v), for the types an identifier can have
str(v) ==
    CASE v.t = "NoneType" -> PyStr("None")
      [] v.t = "bool"     -> PyStr(IF v.n[1] = 1 THEN "True" ELSE "False")
      [] v.t = "int"      -> PyStr(ToString(v.n[1]))
      [] v.t = "datetime" -> PyStr(IsoText(v.n, " "))
      [] OTHER            -> PyStr(v.s)

\* isinstance(v, datetime)
isinstance_datetime(v) == v.t = "datetime"

---------------------------------------------------------------------------
(* dicts: functions from a finite set of keys to values *)

EmptyDict == [k \in {} |-> PyNone]

\* d.get(k): None when the key is absent
dict_get(d, k) == IF k \in DOMAIN d THEN d[k] ELSE PyNone

\* d after d.pop(k)
dict_pop(d, k) == [j \in DOMAIN d \ {k} |-> d[j]]

\* d after d[k] = v
dict_set(d, k, v) == [j \in DOMAIN d \cup {k} |-> IF j = k THEN v ELSE d[j]]

\* a faulty variant of dict_copy: d = doc, the same object under another name
dict_copy_alias(h, r) == [heap |-> h, ref |-> r]

\* doc.copy(): a new dict object with the same items (a shallow copy)
dict_copy(h, r) == [heap |-> Append(h, h[r]), ref |-> Len(h) + 1]

\* the loop of lines 42-44: each datetime value is replaced by its text
convert_datetimes(d) ==
    [k \in DOMAIN d |-> IF isinstance_datetime(d[k]) THEN isoformat(d[k]) ELSE d[k]]

\* a faulty variant of serialize_doc: the identifier is popped without the guard,
\* and a KeyError escapes when the key is absent
serialize_doc_unguarded_pop(h, doc) ==
    LET c == dict_copy(h, doc)
        d == c.ref
    IN IF "_id" \notin DOMAIN c.heap[d]
       THEN [heap |-> c.heap, ret |-> 0, raised |-> TRUE]
       ELSE [heap |-> [c.heap EXCEPT ![d] = convert_datetimes(
                          dict_set(dict_pop(@, "_id"), "id", str(@["_id"])))],
             ret |-> d, raised |-> FALSE]

\* a faulty variant of serialize_doc: id is always set, from d.pop("_id", None)
serialize_doc_always_id(h, doc) ==
    LET c == dict_copy(h, doc)
        d == c.ref
    IN [heap |-> [c.heap EXCEPT ![d] = convert_datetimes(
                     dict_set(dict_pop(@, "_id"), "id", str(dict_get(@, "_id"))))],
        ret |-> d, raised |-> FALSE]

\* serialize_doc(doc) on the heap h: the heap after the call, the reference
\* returned, and whether an exception escaped
serialize_doc(h, doc) ==
    LET c  == dict_copy(h, doc)
        d  == c.ref
        h1 == IF Truthy(dict_get(c.heap[d], "_id"))
              THEN [c.heap EXCEPT ![d] = dict_set(dict_pop(@, "_id"), "id", str(@["_id"]))]
              ELSE c.heap
        h2 == [h1 EXCEPT ![d] = convert_datetimes(@)]
    IN [heap |-> h2, ret |-> d, raised |-> FALSE]

---------------------------------------------------------------------------
(* SpecSerialize: serialize_doc on every document of a bounded family, and *)
(* then on its own output.                                                 *)

DtPlain == DateTime(2024, 1, 15, 10, 30, 0, 0)

DtMicro == DateTime(2024, 1, 15, 10, 30, 0, 250)

DtAware == DateTimeTz(2024, 1, 15, 10, 30, 0, 0, 330)

DtOld == DateTimeTz(987, 3, 5, 7, 8, 9, 123456, -480)

DateTimes == {DtPlain, DtMicro, DtAware, DtOld}

Keys == {"_id", "id", "title", "created_at"}

\* the values a stored document is given under each key
ValuesOf(k) ==
    CASE k = "_id" -> {ObjectId("507f1f77bcf86cd799439011"), PyInt(7), PyInt(0),
                       PyStr(""), PyStr("sku-9"), PyNone, PyBool(FALSE), DtPlain}
      [] k = "id" -> {PyStr("legacy-1"), PyInt(12), DtMicro}
      [] k = "title" -> {PyStr("X"), PyStr(""), DtAware}
      [] k = "created_at" -> DateTimes \cup
                       {PyStr("2024-01-15T10:30:00"), PyNone, PyInt(1705314600),
                        PyList(<<>>), PyList(<<PyStr("a"), DtPlain>>)}

AllValues == UNION {ValuesOf(k) : k \in Keys}

Docs ==
    UNION {{d \in [K -> AllValues] : \A k \in K : d[k] \in ValuesOf(k)} : K \in SUBSET Keys}

NoResult == [ret |-> 0, raised |-> FALSE, value |-> EmptyDict]

\* what a call left: the reference returned, whether it raised, and the
\* value of the returned dict at the time of the return
Result(r) ==
    [ret |-> r.ret, raised |-> r.raised,
     value |-> IF r.raised THEN EmptyDict ELSE r.heap[r.ret]]

NoRequest == [route |-> "none", category |-> PyNone, featured |-> PyNone, limit |-> PyNone]

NoStoreCall == [called |-> FALSE, filt |-> EmptyDict, limit |-> 0, raised |-> FALSE]

NoResponse == [status |-> 0, body |-> <<>>]

NoBoot == [n |-> 0, outcome |-> "none", observed |-> -1, inserted |-> 0]

InitSerialize ==
    /\ \E doc \in Docs : heap = <<doc>> /\ input = doc
    /\ call = "init"
    /\ first = NoResult
    /\ second = NoResult
    /\ db = "None"
    /\ product = <<>>
    /\ boot = NoBoot
    /\ request = NoRequest
    /\ storeCall = NoStoreCall
    /\ response = NoResponse

\* out = serialize_doc(doc)
Serialize ==
    /\ call = "init"
    /\ LET r == serialize_doc(heap, 1)
       IN /\ heap' = r.heap
          /\ first' = Result(r)
    /\ call' = "once"
    /\ UNCHANGED <<input, second>>
    /\ UNCHANGED apiVars

\* serialize_doc(out), when the first call returned
SerializeAgain ==
    /\ call = "once"
    /\ ~first.raised
    /\ LET r == serialize_doc(heap, first.ret)
       IN /\ heap' = r.heap
          /\ second' = Result(r)
    /\ call' = "twice"
    /\ UNCHANGED <<input, first>>
    /\ UNCHANGED apiVars

NextSerialize == Serialize \/ SerializeAgain

SpecSerialize == InitSerialize /\ [][NextSerialize]_vars

---------------------------------------------------------------------------
(* Spec: the service.  The store (module database: db, create_document,    *)
(* get_documents) is the collaborator of section 6 of the specification.   *)

MaxStartups == 2

ProductsLimitDefault == 24

ProductsLimitMin == 1

ProductsLimitMax == 100

FeaturedLimitDefault == 8

FeaturedLimitMin == 1

FeaturedLimitMax == 24

\* the rows of demo_products, with the fields the catalog routes read
demo_products ==
    << [title |-> PyStr("Stitch Plush - Classic Blue"), category |-> PyStr("plush"),
        in_stock |-> PyBool(TRUE), featured |-> PyBool(TRUE)],
       [title |-> PyStr("Stitch Keychain Mini Plush"), category |-> PyStr("accessories"),
        in_stock |-> PyBool(TRUE), featured |-> PyBool(TRUE)],
       [title |-> PyStr("Trading Card Booster Pack - Riftlol Edition"), category |-> PyStr("cards"),
        in_stock |-> PyBool(TRUE), featured |-> PyBool(TRUE)],
       [title |-> PyStr("Collector Binder - Neon Rift"), category |-> PyStr("cards"),
        in_stock |-> PyBool(TRUE), featured |-> PyBool(FALSE)],
       [title |-> PyStr("Arcade Pixel Lamp"), category |-> PyStr("toys"),
        in_stock |-> PyBool(TRUE), featured |-> PyBool(FALSE)] >>

\* a document another writer left in the collection: it has no featured field
LegacyDoc ==
    [_id |-> ObjectId("65a4f0c2e1b2a3c4d5e6f7ff"), title |-> PyStr("Legacy Sticker Sheet"),
     category |-> PyStr("toys")]

\* insert(collection, document): the document as stored after the n documents
\* coll holds, with its assigned identifier and its time of insertion
create_document(coll, p) ==
    Append(coll,
           dict_set(dict_set(p, "_id", ObjectId("65a4f0c2e1b2a3c4d5e6f70" \o ToString(Len(coll)))),
                    "created_at", DateTime(2024, 1, 15, 10, 30, Len(coll), 0)))

\* the collection after create_document on rows 1..n of demo_products, in order
RECURSIVE InsertRows(_, _)
InsertRows(coll, n) ==
    IF n = 0 THEN coll ELSE create_document(InsertRows(coll, n - 1), demo_products[n])

\* a faulty variant of seed_if_empty: the rows are inserted without the count check
seed_if_empty_unchecked(countRaises, nOk) ==
    IF db = "None" \/ countRaises
    THEN /\ product' = product
         /\ boot' = [n |-> boot.n + 1, outcome |-> "ok", observed |-> -1, inserted |-> 0]
    ELSE /\ product' = InsertRows(product, nOk)
         /\ boot' = [n |-> boot.n + 1, outcome |-> "ok", observed |-> Len(product),
                     inserted |-> nOk]

\* seed_if_empty(): countRaises, count_documents raises; nOk, the number of
\* create_document calls that return before one raises (all, when nOk is
\* Len(demo_products)).  Every exception is swallowed: the outcome is "ok".
seed_if_empty(countRaises, nOk) ==
    IF db = "None" \/ countRaises
    THEN /\ product' = product
         /\ boot' = [n |-> boot.n + 1, outcome |-> "ok", observed |-> -1, inserted |-> 0]
    ELSE LET count == Len(product)
         IN IF count = 0
            THEN /\ product' = InsertRows(product, nOk)
                 /\ boot' = [n |-> boot.n + 1, outcome |-> "ok", observed |-> count,
                             inserted |-> nOk]
            ELSE /\ product' = product
                 /\ boot' = [n |-> boot.n + 1, outcome |-> "ok", observed |-> count,
                             inserted |-> 0]

\* a document matches a filter by equality on every key of the filter
Matches(doc, filt) == \A k \in DOMAIN filt : k \in DOMAIN doc /\ doc[k] = filt[k]

\* find(collection, filter, limit): raises when the store is not configured
\* or fails; otherwise the first limit matching documents, in store order
get_documents(collection_name, filter_dict, limit, fails) ==
    IF db = "None" \/ fails
    THEN [raised |-> TRUE, docs |-> <<>>]
    ELSE LET found == SelectSeq(product, LAMBDA doc : Matches(doc, filter_dict))
         IN [raised |-> FALSE,
             docs |-> SubSeq(found, 1, IF limit < Len(found) THEN limit ELSE Len(found))]

\* a faulty variant of Query: an out-of-range value is clamped into the range
QueryClamped(v, default, ge, le) ==
    IF v = PyNone THEN [ok |-> TRUE, value |-> default]
    ELSE [ok |-> TRUE, value |-> IF v.n[1] < ge THEN ge ELSE IF v.n[1] > le THEN le ELSE v.n[1]]

\* Query(default=..., ge=..., le=...): the default when the parameter is
\* absent, a validation error when it is out of the range
Query(v, default, ge, le) ==
    IF v = PyNone THEN [ok |-> TRUE, value |-> default]
    ELSE [ok |-> ge <= v.n[1] /\ v.n[1] <= le, value |-> v.n[1]]

\* a faulty variant of build_filter: "if featured:" in place of "is not None"
build_filter_truthy(category, featured) ==
    LET filt == IF Truthy(category) THEN dict_set(EmptyDict, "category", category) ELSE EmptyDict
    IN IF Truthy(featured) THEN dict_set(filt, "featured", featured) ELSE filt

\* a faulty variant of build_filter: the featured parameter is not used
build_filter_category_only(category, featured) ==
    IF Truthy(category) THEN dict_set(EmptyDict, "category", category) ELSE EmptyDict

\* lines 149-153 of list_products: the filter from the query parameters
build_filter(category, featured) ==
    LET filt == IF Truthy(category) THEN dict_set(EmptyDict, "category", category) ELSE EmptyDict
    IN IF featured # PyNone THEN dict_set(filt, "featured", featured) ELSE filt

\* [serialize_doc(d) for d in docs]: each document a fresh dict of the driver
SerializeAll(docs) == [i \in 1..Len(docs) |-> serialize_doc(<<docs[i]>>, 1)]

\* the values a list of serialize_doc results returned
Returned(outs) == [i \in 1..Len(outs) |-> outs[i].heap[outs[i].ret]]

\* list_products(category, featured, limit), the parameters validated
list_products(category, featured, limit, fails) ==
    LET filt   == build_filter(category, featured)
        got    == get_documents("product", filt, limit, fails)
        outs   == SerializeAll(got.docs)
        raised == got.raised \/ \E i \in 1..Len(outs) : outs[i].raised
    IN /\ storeCall' = [called |-> TRUE, filt |-> filt, limit |-> limit, raised |-> got.raised]
       /\ response' = IF raised THEN [status |-> 200, body |-> <<>>]
                      ELSE [status |-> 200, body |-> Returned(outs)]

\* a faulty variant of featured_products: without the try, the exception reaches the
\* framework, which answers 500
featured_products_no_except(limit, fails) ==
    LET filt   == dict_set(EmptyDict, "featured", PyBool(TRUE))
        got    == get_documents("product", filt, limit, fails)
        outs   == SerializeAll(got.docs)
        raised == got.raised \/ \E i \in 1..Len(outs) : outs[i].raised
    IN /\ storeCall' = [called |-> TRUE, filt |-> filt, limit |-> limit, raised |-> got.raised]
       /\ response' = IF raised THEN [status |-> 500, body |-> <<>>]
                      ELSE [status |-> 200, body |-> Returned(outs)]

\* featured_products(limit), the parameter validated
featured_products(limit, fails) ==
    LET filt   == dict_set(EmptyDict, "featured", PyBool(TRUE))
        got    == get_documents("product", filt, limit, fails)
        outs   == SerializeAll(got.docs)
        raised == got.raised \/ \E i \in 1..Len(outs) : outs[i].raised
    IN /\ storeCall' = [called |-> TRUE, filt |-> filt, limit |-> limit, raised |-> got.raised]
       /\ response' = IF raised THEN [status |-> 200, body |-> <<>>]
                      ELSE [status |-> 200, body |-> Returned(outs)]

\* the framework's answer to a parameter that fails validation: the handler
\* is not called
ValidationError ==
    /\ storeCall' = NoStoreCall
    /\ response' = [status |-> 422, body |-> <<>>]

CategoryInputs == {PyNone, PyStr(""), PyStr("cards"), PyStr("toys")}

FeaturedInputs == {PyNone, PyBool(TRUE), PyBool(FALSE)}

LimitInputs == {PyNone} \cup {PyInt(i) : i \in {0, 1, 2, 24, 25, 100, 101}}

Init ==
    /\ db \in {"None", "riftlol"}
    /\ product \in (IF db = "None" THEN {<<>>} ELSE {<<>>, <<LegacyDoc>>})
    /\ boot = NoBoot
    /\ request = NoRequest
    /\ storeCall = NoStoreCall
    /\ response = NoResponse
    /\ heap = <<>>
    /\ input = EmptyDict
    /\ call = "init"
    /\ first = NoResult
    /\ second = NoResult

\* the process starts: the startup handler runs before any request is
\* served, and the new process has served none
Startup ==
    /\ boot.n < MaxStartups
    /\ \E countRaises \in BOOLEAN, nOk \in 0..Len(demo_products) :
           seed_if_empty(countRaises, nOk)
    /\ request' = NoRequest
    /\ storeCall' = NoStoreCall
    /\ response' = NoResponse
    /\ UNCHANGED db
    /\ UNCHANGED serVars

\* GET /api/products
ListProducts ==
    /\ boot.outcome = "ok"
    /\ \E category \in CategoryInputs, featured \in FeaturedInputs,
          limit \in LimitInputs, fails \in BOOLEAN :
           /\ request' = [route |-> "/api/products", category |-> category,
                          featured |-> featured, limit |-> limit]
           /\ LET q == Query(limit, ProductsLimitDefault, ProductsLimitMin, ProductsLimitMax)
              IN IF q.ok THEN list_products(category, featured, q.value, fails)
                 ELSE ValidationError
    /\ UNCHANGED <<db, product, boot>>
    /\ UNCHANGED serVars

\* GET /api/featured
FeaturedProducts ==
    /\ boot.outcome = "ok"
    /\ \E limit \in LimitInputs, fails \in BOOLEAN :
           /\ request' = [route |-> "/api/featured", category |-> PyNone,
                          featured |-> PyNone, limit |-> limit]
           /\ LET q == Query(limit, FeaturedLimitDefault, FeaturedLimitMin, FeaturedLimitMax)
              IN IF q.ok THEN featured_products(q.value, fails)
                 ELSE ValidationError
    /\ UNCHANGED <<db, product, boot>>
    /\ UNCHANGED serVars

Next == Startup \/ ListProducts \/ FeaturedProducts

Spec == Init /\ [][Next]_vars

---------------------------------------------------------------------------
(* The serializer's properties, under SpecSerialize.                       *)

\* the document serialize_doc(doc) returned
Out == first.value

\* serialize_doc(doc) has returned or raised
Serialized == call # "init"

\* the ISO-8601 text Python prints for each datetime of the family
Iso8601(v) ==
    CASE v = DtPlain -> PyStr("2024-01-15T10:30:00")
      [] v = DtMicro -> PyStr("2024-01-15T10:30:00.000250")
      [] v = DtAware -> PyStr("2024-01-15T10:30:00+05:30")
      [] v = DtOld   -> PyStr("0987-03-05T07:08:09.123456-08:00")

\* what a field's value is to become: the text of a datetime, itself otherwise
Expected(v) == IF v \in DateTimes THEN Iso8601(v) ELSE v

\* a dict without its identifier fields
NonIdentifier(d) == [k \in DOMAIN d \ {"_id", "id"} |-> d[k]]

\* C2, as claimed: the output never has the key '_id', and when the input
\* has '_id' the output has 'id', the string form of that identifier.
C2_NoRawIdentifier ==
    Serialized =>
        /\ ~first.raised
        /\ "_id" \notin DOMAIN Out
        /\ "_id" \in DOMAIN input =>
               "id" \in DOMAIN Out /\ Out["id"] = str(input["_id"])

\* C3, as claimed: every field other than '_id' is in the output under its
\* key, a datetime as its ISO-8601 text and anything else unchanged, and the
\* output has no key the input has not, but 'id'.
C3_Original ==
    Serialized =>
        /\ ~first.raised
        /\ \A k \in DOMAIN input \ {"_id"} :
               k \in DOMAIN Out /\ Out[k] = Expected(input[k])
        /\ DOMAIN Out \subseteq DOMAIN input \cup {"id"}

\* the input's 'id' field is the one the stringified identifier overwrites
Overwritten(k) == k = "id" /\ Truthy(dict_get(input, "_id"))

\* C3, amended: every top-level field other than '_id', and other than an
\* 'id' that the stringified identifier overwrites, is in the output under
\* its key, a datetime as its ISO-8601 text and anything else (a list
\* holding a datetime included) unchanged; apart from '_id' and 'id' the
\* output has the input's keys.
C3_FieldsPassThrough ==
    Serialized =>
        /\ ~first.raised
        /\ \A k \in DOMAIN input \ {"_id"} :
               Overwritten(k) \/ (k \in DOMAIN Out /\ Out[k] = Expected(input[k]))
        /\ DOMAIN NonIdentifier(Out) = DOMAIN NonIdentifier(input)

C3_Witness ==
    /\ Serialized
    /\ \E k \in DOMAIN input \ {"_id", "id"} : input[k] \in DateTimes /\ Out[k] = Iso8601(input[k])
    /\ \E k \in DOMAIN input \ {"_id", "id"} : input[k] \notin DateTimes /\ Out[k] = input[k]
    /\ Truthy(dict_get(input, "_id"))

\* C7, as claimed: a document without '_id' is serialized without an error
\* and its output has no 'id'.
C7_Original ==
    (Serialized /\ "_id" \notin DOMAIN input) =>
        ~first.raised /\ "id" \notin DOMAIN Out

\* C7, amended: a document without '_id' is serialized without an error and
\* no 'id' is added: the output has 'id' exactly when the input has it, and
\* then it is the input's field.
C7_NoIdentifierAdded ==
    (Serialized /\ "_id" \notin DOMAIN input) =>
        /\ ~first.raised
        /\ "id" \in DOMAIN Out <=> "id" \in DOMAIN input
        /\ "id" \in DOMAIN input => Out["id"] = Expected(input["id"])

C7_Witness ==
    /\ call = "once"
    /\ "_id" \notin DOMAIN input
    /\ "id" \notin DOMAIN input
    /\ "title" \in DOMAIN input
    /\ ~first.raised
    /\ "id" \notin DOMAIN Out

\* C8: serialize_doc leaves its argument as it was, keys and values, and
\* returns another object; so on the second call, for the first's output.
C8_InputNotMutated ==
    /\ Serialized => (heap[1] = input /\ (~first.raised => first.ret # 1))
    /\ call = "twice" =>
           (heap[first.ret] = first.value
            /\ (~second.raised => second.ret \notin {1, first.ret}))

C8_Witness ==
    /\ call = "once"
    /\ Truthy(dict_get(input, "_id"))
    /\ \E k \in DOMAIN input \ {"_id"} : input[k] \in DateTimes
    /\ heap[1] = input
    /\ "_id" \notin DOMAIN Out
    /\ first.ret = 2

\* C9: serializing the output again raises nothing and gives the same
\* non-identifier fields.
C9_Idempotent ==
    call = "twice" =>
        ~second.raised /\ NonIdentifier(second.value) = NonIdentifier(first.value)

C9_Witness ==
    /\ call = "twice"
    /\ \E k \in DOMAIN input \ {"_id", "id"} :
           input[k] \in DateTimes /\ second.value[k] = Iso8601(input[k])
    /\ "_id" \in DOMAIN input
    /\ ~second.raised

---------------------------------------------------------------------------
(* The catalog routes' and the seed's properties, under Spec.              *)

\* the last request reached its handler, which called get_documents
Handled(route) == request.route = route /\ storeCall.called

\* the valid limit of the last request: the default when absent
LimitOf(default) == IF request.limit = PyNone THEN default ELSE request.limit.n[1]

\* the limit parameter of the last request is in the closed range
InRange(ge, le) ==
    request.limit = PyNone \/ (ge <= request.limit.n[1] /\ request.limit.n[1] <= le)

\* C1, as claimed: the filter has the key 'category' iff category was
\* provided, the key 'featured' iff featured was provided, each with the
\* value given, and no other key.
C1_Original ==
    Handled("/api/products") =>
        /\ "category" \in DOMAIN storeCall.filt <=> request.category # PyNone
        /\ "featured" \in DOMAIN storeCall.filt <=> request.featured # PyNone
        /\ DOMAIN storeCall.filt \subseteq {"category", "featured"}
        /\ \A k \in DOMAIN storeCall.filt : storeCall.filt[k] = request[k]

\* C1, amended: the filter has the key 'category' iff category was provided
\* and is not the empty text, the key 'featured' iff featured was provided
\* (false included), each with the value given, and no other key.
C1_FilterKeys ==
    Handled("/api/products") =>
        /\ "category" \in DOMAIN storeCall.filt <=> request.category \notin {PyNone, PyStr("")}
        /\ "featured" \in DOMAIN storeCall.filt <=> request.featured # PyNone
        /\ DOMAIN storeCall.filt \subseteq {"category", "featured"}
        /\ \A k \in DOMAIN storeCall.filt : storeCall.filt[k] = request[k]

C1_Witness ==
    /\ Handled("/api/products")
    /\ request.featured = PyBool(FALSE)
    /\ request.category = PyNone
    /\ storeCall.filt = [featured |-> PyBool(FALSE)]

\* C4: a catalog read that passed validation answers 200, and with the
\* empty sequence when the store is not configured or get_documents raised.
C4_DegradesToEmpty ==
    (request.route \in {"/api/products", "/api/featured"} /\ storeCall.called) =>
        /\ response.status = 200
        /\ (db = "None" \/ storeCall.raised) => response.body = <<>>

C4_Witness ==
    /\ Handled("/api/featured")
    /\ db = "None"
    /\ storeCall.raised
    /\ response = [status |-> 200, body |-> <<>>]

\* the limit contract of one route: out of the range, a validation error and
\* no store read; in the range, the store is asked for that limit (the
\* default when absent) and the response has at most that many entries
LimitContract(route, default, ge, le) ==
    request.route = route =>
        IF InRange(ge, le)
        THEN /\ storeCall.called
             /\ storeCall.limit = LimitOf(default)
             /\ response.status = 200
             /\ Len(response.body) <= LimitOf(default)
        ELSE /\ ~storeCall.called
             /\ response.status = 422

\* C5: the limit is validated against 1..100 on /api/products and 1..24 on
\* /api/featured, never clamped, and bounds the response.
C5_LimitValidated ==
    /\ LimitContract("/api/products", 24, 1, 100)
    /\ LimitContract("/api/featured", 8, 1, 24)

\* more documents match than the limit allows, and the response has limit
C5_Witness ==
    /\ Handled("/api/products")
    /\ request.limit = PyInt(2)
    /\ request.category = PyNone /\ request.featured = PyNone
    /\ Len(product) > 2
    /\ Len(response.body) = 2

\* the stored documents a category parameter selects
InCategory ==
    SelectSeq(product, LAMBDA doc : \/ request.category \in {PyNone, PyStr("")}
                                    \/ dict_get(doc, "category") = request.category)

\* C6: featured=true returns only documents stored with featured true;
\* without featured the documents are not filtered on it; /api/featured
\* always filters on featured true.
C6_FeaturedFilter ==
    /\ (Handled("/api/products") /\ request.featured = PyBool(TRUE)) =>
           \A i \in 1..Len(response.body) :
               /\ "featured" \in DOMAIN response.body[i]
               /\ response.body[i]["featured"] = PyBool(TRUE)
    /\ (Handled("/api/products") /\ request.featured = PyNone /\ ~storeCall.raised) =>
           /\ "featured" \notin DOMAIN storeCall.filt
           /\ Len(response.body) =
                  (IF storeCall.limit < Len(InCategory) THEN storeCall.limit ELSE Len(InCategory))
    /\ Handled("/api/featured") => storeCall.filt = [featured |-> PyBool(TRUE)]

C6_Witness ==
    /\ Handled("/api/products")
    /\ request.featured = PyNone
    /\ \E i \in 1..Len(response.body) : dict_get(response.body[i], "featured") = PyBool(TRUE)
    /\ \E i \in 1..Len(response.body) : dict_get(response.body[i], "featured") = PyBool(FALSE)

\* the number of stored documents with the title of demo row r
Stored(r) == Len(SelectSeq(product, LAMBDA doc : doc["title"] = demo_products[r]["title"]))

\* C10: no startup aborts; a startup inserts rows only when it counted an
\* empty collection; each demo row is stored at most once.
C10_SeedOnce ==
    /\ boot.outcome \in {"none", "ok"}
    /\ boot.inserted > 0 => boot.observed = 0
    /\ \A r \in 1..Len(demo_products) : Stored(r) <= 1

\* a second startup on a collection a failed first seeding left partly filled
C10_Witness ==
    /\ boot.n = 2
    /\ boot.observed \in 1..(Len(demo_products) - 1)
    /\ boot.inserted = 0
    /\ Stored(1) = 1

===========================================================================
